---- MODULE Spec2Model ----
(***************************************************************************)
(* ProxyMonitor (src/components/proxy/ProxyMonitor.tsx): the log store,    *)
(* the running statistics, the recording toggle and the bootstrap / live   *)
(* subscription life cycle of the proxy activity monitor, as a state       *)
(* machine.  One step is one run-to-completion piece of the component's    *)
(* JavaScript (from one await to the next) or one step of the proxy        *)
(* engine the component talks to.                                          *)
(***************************************************************************)
EXTENDS Integers, Sequences, FiniteSets

VARIABLES
    logs,              \* useState<ProxyRequestLog[]>     (line 36)
    stats,             \* useState<ProxyStats>            (line 37)
    isLoggingEnabled,  \* useState(false)                 (line 40)
    mounted,           \* the component is mounted (effect cleanup not yet run)
    unlistenFn,        \* the effect's local unlistenFn   (line 81)
    unlistenCalls,     \* how often the cleanup has called unlistenFn
    ld,                \* the loadData() call of the effect: position and locals
    tg,                \* the toggleLogging() calls: position and locals
    cl,                \* the clearLogs() call: position
    persisted,         \* config store: config.proxy.enable_logging
    monitorEnabled,    \* proxy engine: the flag set by set_proxy_monitor_enabled
    durable,           \* proxy engine: recorded exchanges, newest first
    nextId,            \* proxy engine: the id the next exchange gets
    subscribed,        \* event system: the 'proxy://request' handler is registered
    inflight,          \* event system: events emitted and not yet handled
    stimuli,           \* user commands and exchanges of the session so far
    filter             \* useState('')                   (line 38)

vars == << logs, stats, isLoggingEnabled, mounted, unlistenFn, unlistenCalls,
           ld, tg, cl, persisted, monitorEnabled, durable, nextId,
           subscribed, inflight, stimuli, filter >>

component == << logs, stats, isLoggingEnabled >>
engine    == << persisted, monitorEnabled, durable, nextId >>

----------------------------------------------------------------------------
(* Bounds of the model and constants of the program.                       *)

LogCapacity  == 1000   \* .slice(0, 1000)    (line 87)
HistoryLimit == 100    \* { limit: 100 }     (line 51)

MaxStimuli      == 2   \* user commands plus exchanges during a session
MaxInflight     == 1   \* events emitted and not yet handled
MaxCapExchanges == 1002 \* exchanges in the capacity specification
MaxClsExchanges == 2   \* exchanges in the classification specification

Toggles  == {"t1", "t2"}      \* toggleLogging() calls that may overlap
Statuses == {200, 500}        \* statuses of the exchanges of a session
BoundaryStatuses == {-1, 0, 199, 200, 201, 399, 400, 404, 500, 600}

----------------------------------------------------------------------------
(* Data.                                                                   *)

Min(a, b) == IF a <= b THEN a ELSE b

\* Strings are sequences of one-character strings ('' is <<>>).
UpperCase == << "A", "B", "C", "D", "E", "F", "G", "H", "I", "J", "K", "L", "M", "N", "O", "P", "Q", "R", "S", "T", "U", "V", "W", "X", "Y", "Z" >>
LowerCase == << "a", "b", "c", "d", "e", "f", "g", "h", "i", "j", "k", "l", "m", "n", "o", "p", "q", "r", "s", "t", "u", "v", "w", "x", "y", "z" >>
Digits    == << "0", "1", "2", "3", "4", "5", "6", "7", "8", "9" >>

\* String.prototype.toLowerCase, for one character and for a string.
LowerChar(c) ==
    IF \E i \in DOMAIN UpperCase : UpperCase[i] = c
    THEN LowerCase[CHOOSE i \in DOMAIN UpperCase : UpperCase[i] = c]
    ELSE c

toLowerCase(s) == [i \in 1..Len(s) |-> LowerChar(s[i])]

\* String.prototype.includes
includes(s, q) ==
    \E i \in 1..(Len(s) - Len(q) + 1) : SubSeq(s, i, i + Len(q) - 1) = q

\* Number.prototype.toString of an integer: its decimal form.
RECURSIVE toString(_)
toString(n) ==
    IF n < 0 THEN <<"-">> \o toString(0 - n)
    ELSE IF n < 10 THEN << Digits[n + 1] >>
    ELSE toString(n \div 10) \o << Digits[(n % 10) + 1] >>

\* model?: string, absent or present.
NoModel == [present |-> FALSE, value |-> <<>>]
Model(s) == [present |-> TRUE, value |-> s]

\* ProxyRequestLog, reduced to the fields the feed reads (id, status).
Log(id, status) == [id |-> id, status |-> status]

\* ProxyRequestLog with the fields the filter reads as well.
LogRecord(id, status, method, url, model) ==
    [id |-> id, status |-> status, method |-> method, url |-> url, model |-> model]

\* ProxyStats.
Stats(t, s, e) == [total_requests |-> t, success_count |-> s, error_count |-> e]

ZeroStats == Stats(0, 0, 0)

\* Array.prototype.slice(0, n)
Slice0(a, n) == SubSeq(a, 1, Min(n, Len(a)))

\* Faulty variant of isSuccess: the upper bound taken inclusive.
isSuccess_UpTo400(newLog) == newLog.status >= 200 /\ newLog.status <= 400

\* newLog.status >= 200 && newLog.status < 400
isSuccess(newLog) == newLog.status >= 200 /\ newLog.status < 400

\* Faulty variant of InsertLog: the truncation left out.
InsertLog_NoSlice(newLog, prev) == <<newLog>> \o prev

\* Faulty variant of InsertLog: the record put at the tail.
InsertLog_Append(newLog, prev) == Slice0(prev \o <<newLog>>, LogCapacity)

\* setLogs(prev => [newLog, ...prev].slice(0, 1000))
InsertLog(newLog, prev) == Slice0(<<newLog>> \o prev, LogCapacity)

\* Faulty variant of ApplyInsert: an error is counted in the total only.
ApplyInsert_ErrorNotCounted(newLog, prev) ==
    Stats(prev.total_requests + 1,
          prev.success_count + (IF isSuccess(newLog) THEN 1 ELSE 0),
          prev.error_count)

\* setStats(prev => ({ total + 1, success + (isSuccess ? 1 : 0), error + (isSuccess ? 0 : 1) }))
ApplyInsert(newLog, prev) ==
    Stats(prev.total_requests + 1,
          prev.success_count + (IF isSuccess(newLog) THEN 1 ELSE 0),
          prev.error_count + (IF isSuccess(newLog) THEN 0 ELSE 1))

\* The proxy engine's counters over what it has recorded: a record is a
\* success iff 200 <= status < 400, an error otherwise.
StatsOf(s) ==
    LET ok == { i \in DOMAIN s : s[i].status >= 200 /\ s[i].status < 400 } IN
    Stats(Len(s), Cardinality(ok), Len(s) - Cardinality(ok))

\* A value that is not an array / not an object (null).
Null == "null"

\* Exchanges the proxy engine recorded before the session, newest first.
PriorExchanges == << Log(3, 500), Log(2, 200), Log(1, 200) >>

\* Histories the proxy engine may hold when the session starts (the prior
\* exchanges, or nothing when they were cleared or never recorded).
InitialHistories == { <<>>, PriorExchanges }

\* The id of the first exchange of the session.
FirstId == Len(PriorExchanges) + 1

----------------------------------------------------------------------------
(* Initial state: the component has rendered once and its effect has run:  *)
(* loadData() has issued load_config, setupListener() has issued listen(). *)

LdInit ==
    [ pc           |-> "load_config",
      enabled      |-> FALSE,      \* config.proxy.enable_logging as read
      isArray      |-> FALSE,      \* Array.isArray(history)
      history      |-> <<>>,       \* const history
      hasStats     |-> FALSE,      \* currentStats is truthy
      currentStats |-> ZeroStats,  \* const currentStats
      failedAt     |-> "none",     \* the command whose rejection reached the catch
      issued       |-> {"load_config"},   \* commands invoked so far
      applied      |-> {} ]        \* setters called so far

TgIdle(result, synced) ==
    [ pc |-> "idle", newState |-> FALSE, result |-> result, synced |-> synced ]

ClIdle(result, issued) ==
    [ pc |-> "idle", result |-> result, issued |-> issued ]

Init ==
    /\ logs = <<>>
    /\ stats = ZeroStats
    /\ isLoggingEnabled = FALSE
    /\ mounted = TRUE
    /\ unlistenFn = Null
    /\ unlistenCalls = 0
    /\ ld = LdInit
    /\ tg = [t \in Toggles |-> TgIdle("none", FALSE)]
    /\ cl = ClIdle("none", 0)
    /\ persisted \in BOOLEAN
    /\ monitorEnabled = persisted   \* the engine starts from the stored flag
    /\ durable \in InitialHistories
    /\ nextId = FirstId
    /\ subscribed = FALSE
    /\ inflight = <<>>
    /\ stimuli = 0
    /\ filter = <<>>

----------------------------------------------------------------------------
(* The proxy engine and the event system.                                  *)

\* The engine handles one exchange: when recording is enabled it records the
\* exchange and emits 'proxy://request' to the registered handler.
Exchange(statuses, max) ==
    /\ monitorEnabled
    /\ stimuli < max
    /\ stimuli' = stimuli + 1
    /\ subscribed => Len(inflight) < MaxInflight
    /\ \E s \in statuses :
          LET rec == Log(nextId, s) IN
          /\ durable' = <<rec>> \o durable
          /\ inflight' = IF subscribed THEN Append(inflight, rec) ELSE inflight
    /\ nextId' = nextId + 1
    /\ UNCHANGED << component, mounted, unlistenFn, unlistenCalls, ld, tg, cl,
                    persisted, monitorEnabled, subscribed, filter >>

\* Faulty variant of OnProxyRequest: the counters are updated, the store is not.
OnProxyRequest_StatsOnly(newLog) ==
    /\ logs' = logs
    /\ stats' = ApplyInsert(newLog, stats)

\* The handler given to listen(): (event) => { setLogs(...); setStats(...) }
OnProxyRequest(newLog) ==
    /\ logs' = InsertLog(newLog, logs)
    /\ stats' = ApplyInsert(newLog, stats)

\* The event system calls the handler with the oldest undelivered event.  The
\* handler has no mounted / cancelled guard: it runs, and calls both setters,
\* for as long as it is registered.
DeliverEvent ==
    /\ subscribed
    /\ inflight # <<>>
    /\ OnProxyRequest(Head(inflight))
    /\ inflight' = Tail(inflight)
    /\ UNCHANGED << isLoggingEnabled, mounted, unlistenFn, unlistenCalls, ld, tg,
                    cl, engine, subscribed, stimuli, filter >>

----------------------------------------------------------------------------
(* useEffect: setupListener and the cleanup.                               *)

\* unlistenFn = await listen('proxy://request', handler): the handler is
\* registered and the promise resolves to the function that unregisters it.
ListenResolved ==
    /\ unlistenFn = Null
    /\ ~subscribed
    /\ subscribed' = TRUE
    /\ unlistenFn' = "fn"
    /\ UNCHANGED << component, mounted, unlistenCalls, ld, tg, cl, engine, inflight, stimuli, filter >>

\* return () => { if (unlistenFn) unlistenFn(); }
Cleanup ==
    /\ mounted
    /\ mounted' = FALSE
    /\ IF unlistenFn # Null
         THEN /\ subscribed' = FALSE
              /\ inflight' = <<>>
              /\ unlistenCalls' = unlistenCalls + 1
         ELSE UNCHANGED << subscribed, inflight, unlistenCalls >>
    /\ UNCHANGED << component, unlistenFn, ld, tg, cl, engine, stimuli, filter >>

----------------------------------------------------------------------------
(* loadData (lines 42-59).  Each await is one step in which the command is *)
(* served and the function runs on to its next await; the two snapshot     *)
(* fetches are served in one step and resumed in a later one, so that the  *)
(* engine and the handler can run between the snapshot and its use.        *)

\* Faulty variant of LdCatch: each step caught on its own, loadData going on with the
\* next fetch.
LdCatch_GoesOn(cmd) ==
    LET next == IF cmd = "get_proxy_stats" THEN "done"
                ELSE IF cmd = "get_proxy_logs" THEN "get_proxy_stats"
                ELSE "get_proxy_logs"
    IN ld' = [ld EXCEPT !.pc = next, !.failedAt = cmd,
                        !.issued = IF next = "done" THEN @ ELSE @ \cup {next}]

\* The catch of loadData: console.error, nothing else.
LdCatch(cmd) == ld' = [ld EXCEPT !.pc = "failed", !.failedAt = cmd]

\* const config = await invoke('load_config') resolves (the stored configuration
\* always has its proxy section, so the if is taken).
\* setIsLoggingEnabled(config.proxy.enable_logging); invoke('set_proxy_monitor_enabled').
LdLoadConfig ==
    /\ ld.pc = "load_config"
    /\ isLoggingEnabled' = persisted
    /\ ld' = [ld EXCEPT !.pc = "set_proxy_monitor_enabled",
                         !.enabled = persisted,
                         !.issued = @ \cup {"set_proxy_monitor_enabled"},
                         !.applied = @ \cup {"setIsLoggingEnabled"}]
    /\ UNCHANGED << logs, stats, mounted, unlistenFn, unlistenCalls, tg, cl,
                    engine, subscribed, inflight, stimuli, filter >>

\* await invoke('set_proxy_monitor_enabled', { enabled }) succeeds; get_proxy_logs is invoked.
LdSync ==
    /\ ld.pc = "set_proxy_monitor_enabled"
    /\ monitorEnabled' = ld.enabled
    /\ ld' = [ld EXCEPT !.pc = "get_proxy_logs",
                         !.issued = @ \cup {"get_proxy_logs"}]
    /\ UNCHANGED << component, mounted, unlistenFn, unlistenCalls, tg, cl,
                    persisted, durable, nextId, subscribed, inflight, stimuli, filter >>

\* The engine serves get_proxy_logs { limit: 100 }: its newest records, or a
\* payload that is not an array.
LdGetLogsServed ==
    /\ ld.pc = "get_proxy_logs"
    /\ \E isArray \in BOOLEAN :
          ld' = [ld EXCEPT !.pc = "get_proxy_logs_ret",
                           !.isArray = isArray,
                           !.history = IF isArray THEN Slice0(durable, HistoryLimit)
                                                  ELSE <<>>]
    /\ UNCHANGED << component, mounted, unlistenFn, unlistenCalls, tg, cl,
                    engine, subscribed, inflight, stimuli, filter >>

\* Faulty variant of LdGetLogsResumed: the payload is given to setLogs unchecked
\* (what is not an array leaves no record to show).
LdGetLogsResumed_Unchecked ==
    /\ ld.pc = "get_proxy_logs_ret"
    /\ logs' = ld.history
    /\ ld' = [ld EXCEPT !.pc = "get_proxy_stats",
                         !.issued = @ \cup {"get_proxy_stats"},
                         !.applied = @ \cup {"setLogs"}]
    /\ UNCHANGED << stats, isLoggingEnabled, mounted, unlistenFn, unlistenCalls,
                    tg, cl, engine, subscribed, inflight, stimuli, filter >>

\* if (Array.isArray(history)) setLogs(history); invoke('get_proxy_stats').
LdGetLogsResumed ==
    /\ ld.pc = "get_proxy_logs_ret"
    /\ logs' = IF ld.isArray THEN ld.history ELSE logs
    /\ ld' = [ld EXCEPT !.pc = "get_proxy_stats",
                         !.issued = @ \cup {"get_proxy_stats"},
                         !.applied = IF ld.isArray THEN @ \cup {"setLogs"} ELSE @]
    /\ UNCHANGED << stats, isLoggingEnabled, mounted, unlistenFn, unlistenCalls,
                    tg, cl, engine, subscribed, inflight, stimuli, filter >>

\* The engine serves get_proxy_stats: its counters, or nothing.
LdGetStatsServed ==
    /\ ld.pc = "get_proxy_stats"
    /\ \E hasStats \in BOOLEAN :
          ld' = [ld EXCEPT !.pc = "get_proxy_stats_ret",
                           !.hasStats = hasStats,
                           !.currentStats = IF hasStats THEN StatsOf(durable)
                                                        ELSE ZeroStats]
    /\ UNCHANGED << component, mounted, unlistenFn, unlistenCalls, tg, cl,
                    engine, subscribed, inflight, stimuli, filter >>

\* if (currentStats) setStats(currentStats); loadData returns.
LdGetStatsResumed ==
    /\ ld.pc = "get_proxy_stats_ret"
    /\ stats' = IF ld.hasStats THEN ld.currentStats ELSE stats
    /\ ld' = [ld EXCEPT !.pc = "done",
                         !.applied = IF ld.hasStats THEN @ \cup {"setStats"} ELSE @]
    /\ UNCHANGED << logs, isLoggingEnabled, mounted, unlistenFn, unlistenCalls,
                    tg, cl, engine, subscribed, inflight, stimuli, filter >>

\* The command loadData awaits rejects: control goes to the catch.
LdReject ==
    /\ ld.pc \in {"load_config", "set_proxy_monitor_enabled", "get_proxy_logs",
                   "get_proxy_stats"}
    /\ LdCatch(ld.pc)
    /\ UNCHANGED << component, mounted, unlistenFn, unlistenCalls, tg, cl,
                    engine, subscribed, inflight, stimuli, filter >>

LoadData ==
    \/ LdLoadConfig
    \/ LdSync
    \/ LdGetLogsServed
    \/ LdGetLogsResumed
    \/ LdGetStatsServed
    \/ LdGetStatsResumed
    \/ LdReject

----------------------------------------------------------------------------
(* toggleLogging (lines 61-76).                                            *)

\* The catch of toggleLogging: console.error, nothing else.
TgCatch(t, result) == tg' = [tg EXCEPT ![t] = TgIdle(result, tg[t].synced)]

\* Faulty variant of ToggleStart: the target is the negation of the stored flag.
ToggleStart_NegatesPersisted(t) ==
    /\ mounted
    /\ tg[t].pc = "idle"
    /\ stimuli < MaxStimuli
    /\ stimuli' = stimuli + 1
    /\ tg' = [tg EXCEPT ![t] = [pc |-> "load_config", newState |-> ~persisted,
                                result |-> "none", synced |-> FALSE]]
    /\ UNCHANGED << component, mounted, unlistenFn, unlistenCalls, ld, cl,
                    engine, subscribed, inflight, filter >>

\* onClick={toggleLogging}: const newState = !isLoggingEnabled; invoke('load_config').
ToggleStart(t) ==
    /\ mounted
    /\ tg[t].pc = "idle"
    /\ stimuli < MaxStimuli
    /\ stimuli' = stimuli + 1
    /\ tg' = [tg EXCEPT ![t] = [pc |-> "load_config", newState |-> ~isLoggingEnabled,
                                result |-> "none", synced |-> FALSE]]
    /\ UNCHANGED << component, mounted, unlistenFn, unlistenCalls, ld, cl,
                    engine, subscribed, inflight, filter >>

\* load_config resolves: config.proxy.enable_logging = newState; invoke('save_config').
ToggleLoadConfig(t) ==
    /\ tg[t].pc = "load_config"
    /\ tg' = [tg EXCEPT ![t].pc = "save_config"]
    /\ UNCHANGED << component, mounted, unlistenFn, unlistenCalls, ld, cl,
                    engine, subscribed, inflight, stimuli, filter >>

\* load_config rejects: control goes to the catch.
ToggleLoadConfigFails(t) ==
    /\ tg[t].pc = "load_config"
    /\ TgCatch(t, "load_config failed")
    /\ UNCHANGED << component, mounted, unlistenFn, unlistenCalls, ld, cl,
                    engine, subscribed, inflight, stimuli, filter >>

\* save_config resolves: the configuration is stored;
\* invoke('set_proxy_monitor_enabled', { enabled: newState }).
ToggleSaveConfig(t) ==
    /\ tg[t].pc = "save_config"
    /\ persisted' = tg[t].newState
    /\ tg' = [tg EXCEPT ![t].pc = "set_proxy_monitor_enabled", ![t].synced = TRUE]
    /\ UNCHANGED << component, mounted, unlistenFn, unlistenCalls, ld, cl,
                    monitorEnabled, durable, nextId, subscribed, inflight, stimuli, filter >>

\* Faulty variant of ToggleSaveConfigFails: the rejection is swallowed and the toggle
\* goes on to the backend sync.
ToggleSaveConfigFails_GoesOn(t) ==
    /\ tg[t].pc = "save_config"
    /\ tg' = [tg EXCEPT ![t].pc = "set_proxy_monitor_enabled",
                        ![t].result = "save_config failed",
                        ![t].synced = TRUE]
    /\ UNCHANGED << component, mounted, unlistenFn, unlistenCalls, ld, cl,
                    engine, subscribed, inflight, stimuli, filter >>

\* save_config rejects: nothing is stored, control goes to the catch.
ToggleSaveConfigFails(t) ==
    /\ tg[t].pc = "save_config"
    /\ TgCatch(t, "save_config failed")
    /\ UNCHANGED << component, mounted, unlistenFn, unlistenCalls, ld, cl,
                    engine, subscribed, inflight, stimuli, filter >>

\* set_proxy_monitor_enabled resolves: the engine's flag is set;
\* setIsLoggingEnabled(newState).
ToggleSync(t) ==
    /\ tg[t].pc = "set_proxy_monitor_enabled"
    /\ monitorEnabled' = tg[t].newState
    /\ isLoggingEnabled' = tg[t].newState
    /\ tg' = [tg EXCEPT ![t] = TgIdle("ok", TRUE)]
    /\ UNCHANGED << logs, stats, mounted, unlistenFn, unlistenCalls, ld, cl,
                    persisted, durable, nextId, subscribed, inflight, stimuli, filter >>

\* Faulty variant of ToggleSyncFails: the local state is set although the sync
\* was rejected.
ToggleSyncFails_UpdatesLocal(t) ==
    /\ tg[t].pc = "set_proxy_monitor_enabled"
    /\ TgCatch(t, "set_proxy_monitor_enabled failed")
    /\ isLoggingEnabled' = tg[t].newState
    /\ UNCHANGED << logs, stats, mounted, unlistenFn, unlistenCalls, ld, cl,
                    engine, subscribed, inflight, stimuli, filter >>

\* set_proxy_monitor_enabled rejects: control goes to the catch.
ToggleSyncFails(t) ==
    /\ tg[t].pc = "set_proxy_monitor_enabled"
    /\ TgCatch(t, "set_proxy_monitor_enabled failed")
    /\ UNCHANGED << component, mounted, unlistenFn, unlistenCalls, ld, cl,
                    engine, subscribed, inflight, stimuli, filter >>

ToggleLogging ==
    \E t \in Toggles :
        \/ ToggleStart(t)
        \/ ToggleLoadConfig(t)
        \/ ToggleLoadConfigFails(t)
        \/ ToggleSaveConfig(t)
        \/ ToggleSaveConfigFails(t)
        \/ ToggleSync(t)
        \/ ToggleSyncFails(t)

----------------------------------------------------------------------------
(* clearLogs (lines 122-137).                                              *)

\* onClick={clearLogs}: await ask(...): the dialog opens.
ClearStart ==
    /\ mounted
    /\ cl.pc = "idle"
    /\ stimuli < MaxStimuli
    /\ stimuli' = stimuli + 1
    /\ cl' = [pc |-> "ask", result |-> "none", issued |-> 0]
    /\ UNCHANGED << component, mounted, unlistenFn, unlistenCalls, ld, tg,
                    engine, subscribed, inflight, filter >>

\* confirmed is true: invoke('clear_proxy_logs').
ClearConfirmed ==
    /\ cl.pc = "ask"
    /\ cl' = [cl EXCEPT !.pc = "clear_proxy_logs", !.issued = @ + 1]
    /\ UNCHANGED << component, mounted, unlistenFn, unlistenCalls, ld, tg,
                    engine, subscribed, inflight, stimuli, filter >>

\* Faulty variant of ClearDeclined: the history is cleared without the confirmation.
ClearDeclined_ClearsAnyway ==
    /\ cl.pc = "ask"
    /\ durable' = <<>>
    /\ logs' = <<>>
    /\ stats' = ZeroStats
    /\ cl' = ClIdle("declined", cl.issued)
    /\ UNCHANGED << isLoggingEnabled, mounted, unlistenFn, unlistenCalls, ld, tg,
                    persisted, monitorEnabled, nextId, subscribed, inflight, stimuli, filter >>

\* confirmed is false: clearLogs returns.
ClearDeclined ==
    /\ cl.pc = "ask"
    /\ cl' = ClIdle("declined", cl.issued)
    /\ UNCHANGED << component, mounted, unlistenFn, unlistenCalls, ld, tg,
                    engine, subscribed, inflight, stimuli, filter >>

\* Faulty variant of ClearSucceeds: the store is emptied, the counters are kept.
ClearSucceeds_LogsOnly ==
    /\ cl.pc = "clear_proxy_logs"
    /\ durable' = <<>>
    /\ logs' = <<>>
    /\ cl' = ClIdle("cleared", cl.issued)
    /\ UNCHANGED << stats, isLoggingEnabled, mounted, unlistenFn, unlistenCalls, ld, tg,
                    persisted, monitorEnabled, nextId, subscribed, inflight, stimuli, filter >>

\* clear_proxy_logs resolves: the engine's history is cleared;
\* setLogs([]); setStats({ 0, 0, 0 }).
ClearSucceeds ==
    /\ cl.pc = "clear_proxy_logs"
    /\ durable' = <<>>
    /\ logs' = <<>>
    /\ stats' = ZeroStats
    /\ cl' = ClIdle("cleared", cl.issued)
    /\ UNCHANGED << isLoggingEnabled, mounted, unlistenFn, unlistenCalls, ld, tg,
                    persisted, monitorEnabled, nextId, subscribed, inflight, stimuli, filter >>

\* Faulty variant of ClearFails: the local reset done although the command failed.
ClearFails_ResetsAnyway ==
    /\ cl.pc = "clear_proxy_logs"
    /\ logs' = <<>>
    /\ stats' = ZeroStats
    /\ cl' = ClIdle("failed", cl.issued)
    /\ UNCHANGED << isLoggingEnabled, mounted, unlistenFn, unlistenCalls, ld, tg,
                    engine, subscribed, inflight, stimuli, filter >>

\* clear_proxy_logs rejects: the catch logs, nothing else.
ClearFails ==
    /\ cl.pc = "clear_proxy_logs"
    /\ cl' = ClIdle("failed", cl.issued)
    /\ UNCHANGED << component, mounted, unlistenFn, unlistenCalls, ld, tg,
                    engine, subscribed, inflight, stimuli, filter >>

ClearLogs ==
    \/ ClearStart
    \/ ClearConfirmed
    \/ ClearDeclined
    \/ ClearSucceeds
    \/ ClearFails

----------------------------------------------------------------------------
(* The filter (lines 106-120, 177, 210, 222).                              *)

\* log.model && ...: an absent model and '' are falsy.
Truthy(model) == model.present /\ model.value # <<>>

\* Faulty variant of matches: the query compared as typed, not lower-cased.
matches_CaseSensitive(log, f) ==
    \/ includes(toLowerCase(log.url), f)
    \/ includes(toLowerCase(log.method), f)
    \/ (Truthy(log.model) /\ includes(toLowerCase(log.model.value), f))
    \/ includes(toString(log.status), f)

\* Faulty variant of matches: the url clause requires a non-empty query.
matches_EmptyQueryMatchesNothing(log, f) ==
    /\ f # <<>>
    /\ \/ includes(toLowerCase(log.url), toLowerCase(f))
       \/ includes(toLowerCase(log.method), toLowerCase(f))
       \/ (Truthy(log.model) /\ includes(toLowerCase(log.model.value), toLowerCase(f)))
       \/ includes(toString(log.status), f)

\* The predicate given to logs.filter (lines 106-111).
matches(log, f) ==
    \/ includes(toLowerCase(log.url), toLowerCase(f))
    \/ includes(toLowerCase(log.method), toLowerCase(f))
    \/ (Truthy(log.model) /\ includes(toLowerCase(log.model.value), toLowerCase(f)))
    \/ includes(toString(log.status), f)

\* const filteredLogs = logs.filter(...)
filteredLogs == SelectSeq(logs, LAMBDA log : matches(log, filter))

\* quickFilters: the values of the six presets (lines 113-120).
quickFilters ==
    { <<>>, << "4", "0" >>, << "c", "o", "m", "p", "l", "e", "t", "i", "o", "n", "s" >>, << "g", "e", "m", "i", "n", "i" >>, << "c", "l", "a", "u", "d", "e" >>, << "i", "m", "a", "g", "e", "s" >> }

\* Faulty variant of SetFilter: a non-empty query empties the store.
SetFilter_DropsStore(queries, max) ==
    /\ mounted
    /\ stimuli < max
    /\ stimuli' = stimuli + 1
    /\ \E q \in queries :
          /\ filter' = q
          /\ logs' = IF q = <<>> THEN logs ELSE <<>>
    /\ UNCHANGED << stats, isLoggingEnabled, mounted, unlistenFn, unlistenCalls,
                    ld, tg, cl, engine, subscribed, inflight >>

\* setFilter(value): typed into the search box, a quick filter or the reset.
SetFilter(queries, max) ==
    /\ mounted
    /\ stimuli < max
    /\ stimuli' = stimuli + 1
    /\ \E q \in queries : filter' = q
    /\ UNCHANGED << component, mounted, unlistenFn, unlistenCalls, ld, tg, cl,
                    engine, subscribed, inflight >>

\* Queries of the session: the reset and the error preset.
SessionQueries == { <<>>, << "4", "0" >> }

----------------------------------------------------------------------------
(* The session.                                                            *)

Next ==
    \/ LoadData
    \/ ToggleLogging
    \/ ClearLogs
    \/ ListenResolved
    \/ Cleanup
    \/ Exchange(Statuses, MaxStimuli)
    \/ DeliverEvent
    \/ SetFilter(SessionQueries, MaxStimuli)

Spec == Init /\ [][Next]_vars

----------------------------------------------------------------------------
(* The live feed alone: a session whose bootstrap has completed on an      *)
(* empty history with recording enabled and whose listener is registered;  *)
(* from there only the engine and the handler run.                         *)

LdDone ==
    [ pc           |-> "done",
      enabled      |-> TRUE,
      isArray      |-> TRUE,
      history      |-> <<>>,
      hasStats     |-> TRUE,
      currentStats |-> ZeroStats,
      failedAt     |-> "none",
      issued       |-> {"load_config", "set_proxy_monitor_enabled",
                        "get_proxy_logs", "get_proxy_stats"},
      applied      |-> {"setIsLoggingEnabled", "setLogs", "setStats"} ]

InitLive ==
    /\ logs = <<>>
    /\ stats = ZeroStats
    /\ isLoggingEnabled = TRUE
    /\ mounted = TRUE
    /\ unlistenFn = "fn"
    /\ unlistenCalls = 0
    /\ ld = LdDone
    /\ tg = [t \in Toggles |-> TgIdle("none", FALSE)]
    /\ cl = ClIdle("none", 0)
    /\ persisted = TRUE
    /\ monitorEnabled = TRUE
    /\ durable = <<>>
    /\ nextId = FirstId
    /\ subscribed = TRUE
    /\ inflight = <<>>
    /\ stimuli = 0
    /\ filter = <<>>

\* Capacity: exchanges of one status, more of them than the store holds.
NextCapacity ==
    \/ Exchange({200}, MaxCapExchanges)
    \/ DeliverEvent

SpecCapacity == InitLive /\ [][NextCapacity]_vars

\* Classification: exchanges with statuses around the class boundaries.
NextClassify ==
    \/ Exchange(BoundaryStatuses, MaxClsExchanges)
    \/ DeliverEvent

SpecClassify == InitLive /\ [][NextClassify]_vars

----------------------------------------------------------------------------
(* The filter over records of every shape: a bootstrapped component whose  *)
(* store holds up to MaxFilterLogs sample records, and whose search box    *)
(* is set up to MaxFilterChanges times.                                    *)

MaxFilterLogs    == 2
MaxFilterChanges == 2

POST      == << "P", "O", "S", "T" >>
GET       == << "G", "E", "T" >>
ChatUrl   == << "/", "v", "1", "/", "c", "h", "a", "t", "/", "c", "o", "m", "p", "l", "e", "t", "i", "o", "n", "s" >>
GeminiUrl == << "/", "v", "1", "b", "e", "t", "a", "/", "m", "o", "d", "e", "l", "s", "/", "G", "e", "m", "i", "n", "i", "-", "P", "r", "o", ":", "g", "e", "n", "e", "r", "a", "t", "e", "C", "o", "n", "t", "e", "n", "t" >>
ImagesUrl == << "/", "v", "1", "/", "i", "m", "a", "g", "e", "s", "/", "g", "e", "n", "e", "r", "a", "t", "i", "o", "n", "s" >>
ClaudeUrl == << "/", "v", "1", "/", "m", "e", "s", "s", "a", "g", "e", "s" >>

\* A chat completion without a model; a Gemini call whose url and model carry
\* capitals; a record whose model is the empty string; a Claude call whose
\* model alone names claude.
SampleLogs ==
    { LogRecord(1, 200, POST, ChatUrl, NoModel),
      LogRecord(2, 404, POST, GeminiUrl, Model(<< "G", "e", "m", "i", "n", "i", "-", "P", "r", "o" >>)),
      LogRecord(3, 400, GET, ImagesUrl, Model(<<>>)),
      LogRecord(4, 500, POST, ClaudeUrl, Model(<< "c", "l", "a", "u", "d", "e", "-", "3", "-", "o", "p", "u", "s" >>)) }

\* What is typed into the search box: the presets and some free text.
Queries ==
    quickFilters \cup
        { << "G", "E", "M", "I", "N", "I" >>, << "P", "o", "s", "t" >>, << "4" >>, << "0", "0" >>,
          << "-" >>, << "/", "V", "1", "/" >>, << "o", "p", "u", "s" >>, << "2", "0", "0", "0" >> }

InitFilter ==
    /\ logs \in UNION { [1..n -> SampleLogs] : n \in 0..MaxFilterLogs }
    /\ stats = StatsOf(logs)
    /\ isLoggingEnabled = TRUE
    /\ mounted = TRUE
    /\ unlistenFn = "fn"
    /\ unlistenCalls = 0
    /\ ld = LdDone
    /\ tg = [t \in Toggles |-> TgIdle("none", FALSE)]
    /\ cl = ClIdle("none", 0)
    /\ persisted = TRUE
    /\ monitorEnabled = TRUE
    /\ durable = logs
    /\ nextId = Cardinality(SampleLogs) + 1
    /\ subscribed = TRUE
    /\ inflight = <<>>
    /\ stimuli = 0
    /\ filter = <<>>

NextFilter == SetFilter(Queries, MaxFilterChanges)

SpecFilter == InitFilter /\ [][NextFilter]_vars

----------------------------------------------------------------------------
(* Bootstrap over a long history: the engine starts with as many records   *)
(* as the fetch limit, one more, or as many as the store holds.            *)

MaxHistExchanges == 1

\* n recorded exchanges, newest first.
HistoryOf(n) == [i \in 1..n |-> Log(n + 1 - i, 200)]

HistoryLengths == {0, HistoryLimit, HistoryLimit + 1, LogCapacity}

InitHistory ==
    /\ logs = <<>>
    /\ stats = ZeroStats
    /\ isLoggingEnabled = FALSE
    /\ mounted = TRUE
    /\ unlistenFn = Null
    /\ unlistenCalls = 0
    /\ ld = LdInit
    /\ tg = [t \in Toggles |-> TgIdle("none", FALSE)]
    /\ cl = ClIdle("none", 0)
    /\ persisted \in BOOLEAN
    /\ monitorEnabled = persisted
    /\ \E n \in HistoryLengths : durable = HistoryOf(n)
    /\ nextId = Len(durable) + 1
    /\ subscribed = FALSE
    /\ inflight = <<>>
    /\ stimuli = 0
    /\ filter = <<>>

NextHistory ==
    \/ LoadData
    \/ ListenResolved
    \/ Exchange({200}, MaxHistExchanges)
    \/ DeliverEvent

SpecHistory == InitHistory /\ [][NextHistory]_vars

----------------------------------------------------------------------------
(* Claims.                                                                 *)

\* A step in which the handler receives a live event (the oldest in flight).
EventReceived ==
    /\ subscribed /\ subscribed'
    /\ inflight # <<>>
    /\ inflight' = Tail(inflight)

\* The events the handler has received in a session that started at InitLive.
ReceivedCount == nextId - FirstId - Len(inflight)

\* C1: from zeroed stats or a consistent snapshot, after any sequence of live
\* insertions and clears, total_requests = success_count + error_count.
C1_TotalIsSuccessPlusError ==
    stats.total_requests = stats.success_count + stats.error_count

\* C1 witness: the bootstrap set no snapshot, a clear has succeeded and a live
\* event (an error) was counted after it.
C1_Witness ==
    /\ ld.pc = "failed" /\ ld.failedAt = "load_config"
    /\ cl.result = "cleared"
    /\ stats.total_requests = 1
    /\ stats.error_count = 1
    /\ Len(logs) = 1

\* C2: the store never holds more than LogCapacity records; after n live
\* inserts it holds the min(n, LogCapacity) most recently received ones,
\* newest first, so that the oldest received is the one dropped.
C2_Capacity ==
    /\ Len(logs) = Min(ReceivedCount, LogCapacity)
    /\ \A i \in 1..Len(logs) : logs[i].id = FirstId + ReceivedCount - i

\* C2 witness: LogCapacity + 1 records were inserted, LogCapacity are held
\* and the first one received is gone.
C2_Witness ==
    /\ ReceivedCount = LogCapacity + 1
    /\ Len(logs) = LogCapacity
    /\ logs[1].id = FirstId + LogCapacity
    /\ logs[LogCapacity].id = FirstId + 1

\* C3: every live event adds 1 to total_requests and 1 to exactly one of
\* success_count / error_count: success iff 200 <= status < 400 (200 and 399
\* are successes; 400, 404 and every status below 200 are errors).
C3_Classification ==
    [][ EventReceived =>
          LET r == Head(inflight) IN
          /\ stats'.total_requests = stats.total_requests + 1
          /\ (r.status >= 200 /\ r.status < 400) =>
                /\ stats'.success_count = stats.success_count + 1
                /\ stats'.error_count = stats.error_count
          /\ ~(r.status >= 200 /\ r.status < 400) =>
                /\ stats'.success_count = stats.success_count
                /\ stats'.error_count = stats.error_count + 1
          /\ r.status \in {200, 399} => stats'.success_count = stats.success_count + 1
          /\ (r.status \in {400, 404} \/ r.status < 200) =>
                stats'.error_count = stats.error_count + 1
      ]_vars

\* C3 witness: a 399 and then a 400 were received: one success, one error.
C3_Witness ==
    /\ Len(logs) = 2
    /\ logs[2].status = 399
    /\ logs[1].status = 400
    /\ stats = Stats(2, 1, 1)

\* C4: when the bootstrap has completed with the history H and the stats S
\* and one live event r is then received, the store is r followed by H and
\* the stats are S with the total and r's class one higher.
C4_EndToEnd ==
    [][ /\ (ld.pc = "get_proxy_logs_ret" /\ ld'.pc = "get_proxy_stats" /\ ld.isArray)
            => logs' = ld.history
        /\ (ld.pc = "get_proxy_stats_ret" /\ ld'.pc = "done" /\ ld.hasStats)
            => stats' = ld.currentStats
        /\ (ld.pc = "done" /\ logs = ld.history /\ stats = ld.currentStats
                /\ EventReceived)
            => LET r == Head(inflight)
                   H == ld.history
                   S == ld.currentStats
                   ok == r.status >= 200 /\ r.status < 400
               IN /\ logs' = <<r>> \o H
                  /\ Len(logs') = Len(H) + 1
                  /\ logs'[1] = r
                  /\ stats' = Stats(S.total_requests + 1,
                                    S.success_count + (IF ok THEN 1 ELSE 0),
                                    S.error_count + (IF ok THEN 0 ELSE 1))
      ]_vars

\* C4 witness: H of 3 records, S = {3, 2, 1}, then one event with status 500:
\* 4 records, the new one first, stats {4, 2, 2}.
C4_Witness ==
    /\ ld.pc = "done"
    /\ ld.history = PriorExchanges
    /\ ld.currentStats = Stats(3, 2, 1)
    /\ logs = << Log(FirstId, 500) >> \o PriorExchanges
    /\ Len(logs) = 4
    /\ stats = Stats(4, 2, 2)

\* C5: when save_config fails in a toggle, that toggle changes neither the
\* local isLoggingEnabled nor the engine's flag, and it never issues
\* set_proxy_monitor_enabled.
C5_FailedSaveStopsToggle ==
    /\ [](\A t \in Toggles :
            tg[t].result = "save_config failed" => (tg[t].pc = "idle" /\ ~tg[t].synced))
    /\ [][ \A t \in Toggles :
             (tg[t].pc = "save_config" /\ tg'[t].result = "save_config failed")
             => /\ isLoggingEnabled' = isLoggingEnabled
                /\ monitorEnabled' = monitorEnabled
                /\ persisted' = persisted
       ]_vars

\* C5 witness: a toggle whose save_config failed, the local state still at
\* the value the toggle read.
C5_Witness ==
    \E t \in Toggles :
        /\ tg[t].result = "save_config failed"
        /\ isLoggingEnabled = TRUE
        /\ monitorEnabled = TRUE

\* C6 (as claimed): whenever no toggle and no bootstrap is in progress, the
\* persisted configuration, the engine's flag and the local toggle agree.
C6_Converged ==
    (ld.pc \in {"done", "failed"} /\ \A t \in Toggles : tg[t].pc = "idle")
    => (persisted = monitorEnabled /\ monitorEnabled = isLoggingEnabled)

\* C7: when clear_proxy_logs fails, the step that observes the failure leaves
\* logs and stats (and the engine's history) as they were, and the command is
\* not issued again: clearLogs has returned having issued it once.
C7_FailedClearKeepsState ==
    /\ [](cl.result = "failed" => (cl.pc = "idle" /\ cl.issued = 1))
    /\ [][ (cl.pc = "clear_proxy_logs" /\ cl'.result = "failed")
            => (logs' = logs /\ stats' = stats /\ durable' = durable) ]_vars

\* C7 witness: a failed clear with a non-empty store and non-zero stats.
C7_Witness ==
    /\ cl.result = "failed"
    /\ logs = PriorExchanges
    /\ stats = Stats(3, 2, 1)

\* C8 (as claimed): a failed bootstrap fetch does not stop the later ones:
\* after load_config or the backend sync fails, the history and the stats are
\* still fetched; after the history fetch fails, the stats are still fetched.
C8_LaterFetchesStillRun ==
    ld.pc \in {"done", "failed"} =>
        /\ ld.failedAt \in {"load_config", "set_proxy_monitor_enabled"}
            => {"get_proxy_logs", "get_proxy_stats"} \subseteq ld.issued
        /\ ld.failedAt = "get_proxy_logs" => "get_proxy_stats" \in ld.issued

\* C8 (amended): a failed bootstrap fetch ends loadData in its catch: no later
\* command is issued and no later setter is called; what was applied before
\* the failure stays.
C8_FailureEndsBootstrap ==
    /\ ld.failedAt # "none" => ld.pc = "failed"
    /\ ld.failedAt = "load_config"
        => (ld.issued = {"load_config"} /\ ld.applied = {})
    /\ ld.failedAt = "set_proxy_monitor_enabled"
        => /\ ld.issued = {"load_config", "set_proxy_monitor_enabled"}
           /\ ld.applied = {"setIsLoggingEnabled"}
    /\ ld.failedAt = "get_proxy_logs"
        => /\ ld.issued = {"load_config", "set_proxy_monitor_enabled", "get_proxy_logs"}
           /\ ld.applied = {"setIsLoggingEnabled"}
    /\ ld.failedAt = "get_proxy_stats"
        => /\ "setStats" \notin ld.applied
           /\ ("setLogs" \in ld.applied) = ld.isArray

\* C8 witness: load_config failed, nothing was fetched, and the session goes
\* on: the listener is registered and an event was received.
C8_Witness ==
    /\ ld.pc = "failed"
    /\ ld.failedAt = "load_config"
    /\ subscribed
    /\ Len(logs) = 1
    /\ stats.total_requests = 1

\* C9 (as claimed): after deactivation every subscription that is or becomes
\* established has been cancelled exactly once.
C9_CancelledOnce ==
    (~mounted /\ unlistenFn # Null) => (unlistenCalls = 1 /\ ~subscribed)

\* C10 (as claimed): once the session is deactivated, a received live event
\* changes neither logs nor stats.
C10_NoEventAfterDeactivation ==
    [][ (~mounted /\ EventReceived) => (logs' = logs /\ stats' = stats) ]_vars

\* C11 (as claimed): no two records of the store share an id, and no exchange
\* is counted twice: while nothing was cleared, the total never exceeds the
\* number of exchanges the engine has recorded.
C11_NoDuplicateIds ==
    /\ \A i, j \in DOMAIN logs : i # j => logs[i].id # logs[j].id
    /\ (cl.pc = "idle" /\ cl.result = "none")
        => stats.total_requests <= Len(durable)

\* Two characters equal up to the case of a letter.
SameLetter(a, b) ==
    \/ a = b
    \/ \E i \in DOMAIN UpperCase : {a, b} = {UpperCase[i], LowerCase[i]}

\* q occurs in s at some offset, letters compared without case.
CaseInsensitiveSubstring(s, q) ==
    \E k \in 0..(Len(s) - Len(q)) : \A i \in 1..Len(q) : SameLetter(s[k + i], q[i])

\* q occurs in s at some offset, character for character.
Substring(s, q) ==
    \E k \in 0..(Len(s) - Len(q)) : \A i \in 1..Len(q) : s[k + i] = q[i]

\* C12: the empty query matches every record, so with an empty search box the
\* filtered view is the whole store, in the same order.
C12_EmptyQueryKeepsAll ==
    /\ \A i \in DOMAIN logs : matches(logs[i], <<>>)
    /\ filter = <<>> => filteredLogs = logs

\* The search box was reset to the empty query over a store holding two
\* records, one of them without a model.
C12_Witness ==
    /\ filter = <<>>
    /\ stimuli > 0
    /\ Len(logs) = MaxFilterLogs
    /\ \E i \in DOMAIN logs : ~logs[i].model.present
    /\ Len(filteredLogs) = MaxFilterLogs

\* C13: a record matches the query iff the query occurs, letters compared
\* without case, in its url, in its method, or in its model when it has one,
\* or occurs in the decimal digits of its status; a record without a model is
\* matched by the other fields alone, and the chat completions url matches
\* "completions" and not "gemini".
C13_MatchesIsSubstringOfAField ==
    /\ \A i \in DOMAIN logs :
          LET log == logs[i] IN
          matches(log, filter) <=>
              \/ CaseInsensitiveSubstring(log.url, filter)
              \/ CaseInsensitiveSubstring(log.method, filter)
              \/ (log.model.present /\ CaseInsensitiveSubstring(log.model.value, filter))
              \/ Substring(toString(log.status), filter)
    /\ \A i \in DOMAIN logs :
          (logs[i].url = ChatUrl /\ ~logs[i].model.present) =>
              /\ matches(logs[i], << "c", "o", "m", "p", "l", "e", "t", "i", "o", "n", "s" >>)
              /\ ~matches(logs[i], << "g", "e", "m", "i", "n", "i" >>)

\* "GEMINI" is typed over a store holding the model-less chat completion and
\* the Gemini call: the view keeps the Gemini call alone.
C13_Witness ==
    /\ filter = << "G", "E", "M", "I", "N", "I" >>
    /\ Len(logs) = 2
    /\ logs[1].url = ChatUrl /\ ~logs[1].model.present
    /\ logs[2].url = GeminiUrl
    /\ filteredLogs = << logs[2] >>

\* C14 (as claimed): the history is fetched with the store's capacity as its
\* limit, so a recorded history of up to LogCapacity records comes back whole.
C14_HistoryFetchedUpToCapacity ==
    [][ (/\ ld.pc = "get_proxy_logs"
         /\ ld'.pc = "get_proxy_logs_ret"
         /\ ld'.isArray
         /\ Len(durable) <= LogCapacity)
        => ld'.history = durable ]_vars

\* loadData has returned, normally or through its catch.
BootstrapFinished(l) == l.pc \in {"done", "failed"}

\* C15 (as claimed): the handler is registered only once the bootstrap has
\* finished, no live event is received before that, and the bootstrap's
\* setLogs drops no record that a live event has put into the store.
C15_LiveOnlyAfterBootstrap ==
    [][ /\ subscribed' => BootstrapFinished(ld')
        /\ EventReceived => BootstrapFinished(ld)
        /\ (ld.pc = "get_proxy_logs_ret" /\ ld'.pc = "get_proxy_stats")
             => \A i \in DOMAIN logs : \E j \in DOMAIN logs' : logs'[j] = logs[i]
      ]_vars

\* The results with which a toggle ends in its catch.
ToggleFailures ==
    {"load_config failed", "save_config failed", "set_proxy_monitor_enabled failed"}

\* C16: every toggle goes load_config, save_config, set_proxy_monitor_enabled,
\* local update, in that order: save_config is issued by the step in which
\* load_config resolved, set_proxy_monitor_enabled by the step in which
\* save_config stored the new value, the local state is set by the step in
\* which set_proxy_monitor_enabled took effect, and no other step of a toggle
\* (a failure among them) changes the local state.
C16_ToggleStepsInOrder ==
    [][ /\ \A t \in Toggles :
             /\ (tg'[t].pc = "load_config" /\ tg[t].pc # "load_config")
                  => (tg[t].pc = "idle" /\ tg'[t].newState = ~isLoggingEnabled)
             /\ (tg'[t].pc = "save_config" /\ tg[t].pc # "save_config")
                  => tg[t].pc = "load_config"
             /\ (tg'[t].pc = "set_proxy_monitor_enabled"
                    /\ tg[t].pc # "set_proxy_monitor_enabled")
                  => (tg[t].pc = "save_config" /\ persisted' = tg[t].newState)
             /\ (tg'[t].result = "ok" /\ tg[t].pc # "idle")
                  => /\ tg[t].pc = "set_proxy_monitor_enabled"
                     /\ monitorEnabled' = tg[t].newState
                     /\ isLoggingEnabled' = tg[t].newState
             /\ (tg'[t].result \in ToggleFailures /\ tg[t].pc # "idle")
                  => isLoggingEnabled' = isLoggingEnabled
        /\ (tg' # tg /\ isLoggingEnabled' # isLoggingEnabled)
             => \E t \in Toggles :
                    /\ tg[t].pc = "set_proxy_monitor_enabled"
                    /\ tg'[t].result = "ok"
      ]_vars

\* A toggle stored the new value and its sync was rejected: the stored flag is
\* the new value, the local state is still the one the toggle read.
C16_Witness ==
    \E t \in Toggles :
        /\ tg[t].result = "set_proxy_monitor_enabled failed"
        /\ tg[t].synced
        /\ \A u \in Toggles \ {t} : tg[u].pc = "idle" /\ tg[u].result = "none"
        /\ ld.pc = "done"
        /\ persisted # isLoggingEnabled

\* C17: the handler puts a received record into the store and into the
\* counters in one step, so in every state of a live session the counters
\* reflect no more events than the store holds, and the store at most one more.
C17_StatsNeverAheadOfStore ==
    /\ [](/\ stats.total_requests <= Len(logs)
          /\ Len(logs) <= stats.total_requests + 1)
    /\ [][ EventReceived =>
             /\ logs' = << Head(inflight) >> \o logs
             /\ stats'.total_requests = stats.total_requests + 1
             /\ UNCHANGED << isLoggingEnabled, engine, ld, tg, cl >>
       ]_vars

\* One event has been applied to the store and to the counters while the next
\* one is still in flight, in neither of them.
C17_Witness ==
    /\ Len(logs) = 1
    /\ stats.total_requests = 1
    /\ Len(inflight) = 1
    /\ inflight[1].id # logs[1].id

\* C18: the step in which clear_proxy_logs succeeds empties the store and
\* zeroes the three counters together, whatever live events were received or
\* are in flight; no step of clearLogs resets one of the two without the other.
C18_ClearResetsBothTogether ==
    [][ /\ (cl.pc = "clear_proxy_logs" /\ cl'.result = "cleared")
             => (logs' = <<>> /\ stats' = ZeroStats)
        /\ cl' # cl
             => \/ (logs' = logs /\ stats' = stats)
                \/ (logs' = <<>> /\ stats' = ZeroStats)
      ]_vars

\* A clear has succeeded after the bootstrap while an event emitted before it
\* is still in flight: the store is empty and the counters are zero.
C18_Witness ==
    /\ cl.result = "cleared"
    /\ ld.pc = "done"
    /\ inflight # <<>>
    /\ durable = <<>>
    /\ logs = <<>>
    /\ stats = ZeroStats

\* C19: clear_proxy_logs is invoked only by the step in which the dialog was
\* confirmed; when it is declined the command is not issued, and the store,
\* the counters and the engine's history stay as they were.
C19_ClearOnlyAfterConfirmation ==
    /\ [](cl.result = "declined" => (cl.pc = "idle" /\ cl.issued = 0))
    /\ [][ /\ (cl'.pc = "clear_proxy_logs" /\ cl.pc # "clear_proxy_logs")
               => (cl.pc = "ask" /\ cl'.issued = 1)
           /\ (cl.pc = "ask" /\ cl'.result = "declined")
               => (logs' = logs /\ stats' = stats /\ durable' = durable)
           /\ (Len(durable') < Len(durable))
               => (cl.pc = "clear_proxy_logs" /\ cl.issued = 1)
       ]_vars

\* The dialog was declined over a bootstrapped store: the records, the
\* counters and the engine's history are all still there.
C19_Witness ==
    /\ cl.result = "declined"
    /\ logs = PriorExchanges
    /\ stats = Stats(3, 2, 1)
    /\ durable = PriorExchanges

\* C20 (as claimed): a history payload that is not an array is handled as a
\* failed history fetch is: the store keeps its contents and the stats are
\* fetched next, in the one case as in the other.
C20_NonArrayAsFetchFailure ==
    /\ (ld.pc \in {"get_proxy_stats", "get_proxy_stats_ret", "done"} /\ ~ld.isArray)
         => ("setLogs" \notin ld.applied /\ "get_proxy_stats" \in ld.issued)
    /\ ld.failedAt = "get_proxy_logs"
         => ("setLogs" \notin ld.applied /\ "get_proxy_stats" \in ld.issued)

\* C20 (amended): a history payload that is not an array never reaches
\* setLogs: the step that receives it leaves the store as it was and invokes
\* get_proxy_stats; a failed history fetch, unlike it, ends loadData without
\* the stats fetch.
C20_NonArrayKeepsStore ==
    /\ [](/\ (ld.pc \in {"get_proxy_stats", "get_proxy_stats_ret", "done"} /\ ~ld.isArray)
              => ("setLogs" \notin ld.applied /\ "get_proxy_stats" \in ld.issued)
          /\ ld.failedAt = "get_proxy_logs"
              => ("setLogs" \notin ld.applied /\ "get_proxy_stats" \notin ld.issued))
    /\ [][ (ld.pc = "get_proxy_logs_ret" /\ ~ld.isArray /\ ld' # ld)
            => /\ logs' = logs
               /\ stats' = stats
               /\ ld'.pc = "get_proxy_stats"
       ]_vars

\* A live event was in the store when the non-array payload arrived: the
\* record is still there and get_proxy_stats has been invoked.
C20_Witness ==
    /\ ld.pc = "get_proxy_stats"
    /\ ~ld.isArray
    /\ Len(logs) = 1
    /\ inflight = <<>>
    /\ nextId = FirstId + 1

\* A step in which setFilter is called: a stimulus that starts no toggle and
\* no clear and is no exchange.
FilterSet ==
    /\ stimuli' = stimuli + 1
    /\ tg' = tg
    /\ cl' = cl
    /\ engine' = engine

\* C21: isLoggingEnabled changes only in the step of loadData in which
\* load_config resolved and in the step of a toggle in which
\* set_proxy_monitor_enabled succeeded; a received live event, every step of
\* clearLogs and every setFilter leave it as it was, and a setFilter leaves
\* logs and stats as they were.
C21_RecordingStateFrame ==
    [][ /\ isLoggingEnabled' # isLoggingEnabled
             => \/ (ld.pc = "load_config" /\ ld'.pc = "set_proxy_monitor_enabled")
                \/ \E t \in Toggles :
                       /\ tg[t].pc = "set_proxy_monitor_enabled"
                       /\ tg'[t].result = "ok"
        /\ EventReceived => isLoggingEnabled' = isLoggingEnabled
        /\ cl' # cl => isLoggingEnabled' = isLoggingEnabled
        /\ (FilterSet \/ filter' # filter)
             => /\ isLoggingEnabled' = isLoggingEnabled
                /\ logs' = logs
                /\ stats' = stats
      ]_vars

\* The error preset was chosen over a bootstrapped store that also holds a
\* live record: the four records, the counters and the recording state are
\* all still there.
C21_Witness ==
    /\ filter # <<>>
    /\ ld.pc = "done"
    /\ Len(logs) = Len(PriorExchanges) + 1
    /\ stats.total_requests = Len(PriorExchanges) + 1
    /\ isLoggingEnabled

\* C22 (as claimed): two toggles that are in progress together target the
\* same value.
C22_OverlappingTogglesOneTarget ==
    (\A t \in Toggles : tg[t].pc # "idle")
    => \A t, u \in Toggles : tg[t].newState = tg[u].newState

\* C22, the part that holds in every interleaving: a toggle targets the negation of isLoggingEnabled as it is
\* when the toggle is invoked, whatever the stored flag is; a toggle invoked
\* while another is in progress, isLoggingEnabled being still what that one
\* read, targets the same value; and when the second of two such toggles
\* succeeds after the first, the stored flag, the engine's flag and
\* isLoggingEnabled all equal that one target.
C22_OneFlip ==
    [][ \A u \in Toggles :
          /\ (tg[u].pc = "idle" /\ tg'[u].pc = "load_config")
               => /\ tg'[u].newState = ~isLoggingEnabled
                  /\ \A t \in Toggles \ {u} :
                        (tg[t].pc # "idle" /\ isLoggingEnabled = ~tg[t].newState)
                        => tg'[u].newState = tg[t].newState
          /\ (/\ tg[u].pc = "set_proxy_monitor_enabled"
              /\ tg'[u].result = "ok"
              /\ isLoggingEnabled = tg[u].newState
              /\ \E t \in Toggles \ {u} : tg[t].pc = "idle" /\ tg[t].result = "ok")
               => /\ persisted' = tg[u].newState
                  /\ monitorEnabled' = tg[u].newState
                  /\ isLoggingEnabled' = tg[u].newState
      ]_vars

\* After the bootstrap two toggles were invoked together: the first has
\* succeeded and set isLoggingEnabled to the target of the second, which has
\* stored the same value and awaits set_proxy_monitor_enabled.
C22_Witness ==
    \E t, u \in Toggles :
        /\ t # u
        /\ tg[t].pc = "idle" /\ tg[t].result = "ok"
        /\ tg[u].pc = "set_proxy_monitor_enabled"
        /\ isLoggingEnabled = tg[u].newState
        /\ persisted = tg[u].newState
        /\ monitorEnabled = tg[u].newState
        /\ ld.pc = "done"
        /\ ld.enabled = ~tg[u].newState

====
